---- MODULE Spec2Model ----
(***************************************************************************)
(* Model of around_the_grounds: the scraping coordinator                   *)
(* (scrapers/coordinator.py), the parser registry (parsers/registry.py)    *)
(* and the shared parser helpers (parsers/base.py).                        *)
(*                                                                         *)
(* One run of ScraperCoordinator.scrape_all is a set of asyncio tasks, one *)
(* per brewery, each suspended only at `await parser.parse(session)` and   *)
(* at `await asyncio.sleep(wait_time)`.  Every action below is the code    *)
(* that runs between two suspension points of one task, or the synchronous *)
(* code of scrape_all itself.                                              *)
(***************************************************************************)
EXTENDS Integers, Sequences, FiniteSets, TLC

\* ------------------------------------------------------------------ bounds
MaxSources == 2          \* longest brewery list handed to scrape_all
MaxRetries == 4          \* largest configured max_retries
MaxEvents == 3           \* longest list handed to the filter on its own
MaxHour == 13            \* largest hour number on a schedule line
MaxRegistrations == 2     \* register_parser calls made on a registry
MaxItems == 2            \* longest list of items in an API response
MaxVisionRetries == 2    \* largest max_retries given to the vision analyzer
MaxSites == 2            \* most site configurations of one --all-sites run
MaxErrors == 2           \* longest error list handed to a display function
max_concurrent == 1       \* ScraperCoordinator(max_concurrent=...)
timeout == 1             \* ScraperCoordinator(timeout=...), in clock ticks

\* --------------------------------------------------------------- variables
VARIABLES
    parsers,       \* ParserRegistry._parsers: registered key -> parser class
    max_retries,   \* ScraperCoordinator.max_retries
    breweries,     \* argument of the current scrape_all call (list of keys)
    pc,            \* position of scrape_all: idle, gather, returned, raised
    errors,        \* ScraperCoordinator.errors
    tasks,         \* one record per coroutine handed to asyncio.gather
    appends,       \* history: number of self.errors.append calls per brewery
    all_events,    \* scrape_all's merged list before filtering
    returned,      \* value returned by scrape_all (or the escaped exception)
    now,           \* the instant datetime.now() reads in the final filter
    script,        \* what each brewery's site does at each attempt
    prev,          \* history: how the previous scrape_all call ended
    call,          \* a helper called on its own: its name and argument
    out,           \* what that call returned
    order,         \* insertion order of the keys of ParserRegistry._parsers
    registered     \* history: the register_parser calls made so far

\* the call of a helper on its own, and the registry used on its own
helpers == <<call, out, order, registered>>

vars == <<parsers, max_retries, breweries, pc, errors, tasks, appends,
          all_events, returned, now, script, prev, helpers>>

\* ------------------------------------------------------- exception classes
\* asyncio.TimeoutError, aiohttp.ServerTimeoutError (a ClientError and a
\* TimeoutError), aiohttp.ClientError, ValueError, KeyError, and
\* RuntimeError standing for every other subclass of Exception.
ExceptionClasses ==
    {"TimeoutError", "ServerTimeoutError", "ClientError", "ValueError",
     "KeyError", "RuntimeError"}

IsInstance(exc, cls) ==
    \/ exc = cls
    \/ cls = "Exception"
    \/ exc = "ServerTimeoutError" /\ cls \in {"TimeoutError", "ClientError"}

\* The failure taxonomy: what kind of failure an exception class is.
IsTimeout(exc) == exc \in {"TimeoutError", "ServerTimeoutError"}

IsRetryableFailure(exc) ==
    exc \in {"TimeoutError", "ServerTimeoutError", "ClientError", "RuntimeError",
             "KeyError"}

KindOf(exc) ==
    IF IsTimeout(exc) THEN "Network Timeout"
    ELSE IF exc = "ClientError" THEN "Network Error"
    ELSE IF exc = "ValueError" THEN "Parser Error"
    ELSE "Unexpected Error"

\* ------------------------------------------------------------------ events
\* A FoodTruckEvent: the brewery it belongs to, its `date` (a datetime: a
\* day number and the minutes after midnight of that day), its start_time
\* (NoTime, or minutes after midnight of the same day) and whether
\* start_time carries a tzinfo.
None == "None"

\* start_time = None (an event without a time)
NoTime == -1

FoodTruckEvent(key, date, minute, start_time, aware) ==
    [brewery_key |-> key, date |-> date, minute |-> minute,
     start_time |-> start_time, aware |-> aware]

\* The events a parser of brewery `key` can extract in a run: day 0 without
\* a time, day 0 at 14:00 (offset-naive, or offset-aware as
\* UrbanFamilyParser._parse_time_string returns for an ISO timestamp), and
\* one beyond the seven-day window.
Events(key) ==
    { FoodTruckEvent(key, 0, 0, NoTime, FALSE),
      FoodTruckEvent(key, 0, 0, 840, FALSE),
      FoodTruckEvent(key, 0, 0, 840, TRUE),
      FoodTruckEvent(key, 8, 0, NoTime, FALSE) }

\* What one parse() returns: no event, one event of its brewery, or the
\* same event listed twice.
EventLists(key) ==
    {<<>>} \cup { <<e>> : e \in Events(key) }
           \cup { <<FoodTruckEvent(key, 0, 0, NoTime, FALSE),
                    FoodTruckEvent(key, 0, 0, NoTime, FALSE)>> }

\* ------------------------------------------------------------ parser layer
\* What session.get() can do to a parser that fetches one page: an HTTP
\* status with a body, an HTTP status with an empty body, or an exception.
Transport ==
    {"200", "200-empty", "404", "403", "500", "503", "301",
     "TimeoutError", "ServerTimeoutError", "ClientError"}

Ok(value) == [exc |-> None, msg |-> None, value |-> value]

Raise(cls, msg) == [exc |-> cls, msg |-> msg, value |-> <<>>]

\* BaseParser.fetch_page
fetch_page(t) ==
    CASE t = "404" -> Raise("ValueError", "Page not found (404)")
      [] t = "403" -> Raise("ValueError", "Access forbidden (403)")
      [] t = "500" -> Raise("ValueError", "Server error (500)")
      [] t \in {"503", "301"} -> Raise("ValueError", "HTTP status")
      [] t = "200-empty" -> Raise("ValueError", "Empty response")
      [] t = "200" -> Ok(<<>>)
      [] IsInstance(t, "ClientError") ->
            Raise("ValueError", "Network error fetching")
      [] OTHER -> Raise("ValueError", "Failed to parse HTML")

\* StoupBallardParser.parse: fetch the page, extract, filter; every
\* exception leaves as a ValueError.
StoupBallardParser_parse(t, events) ==
    LET soup == fetch_page(t)
    IN  IF soup.exc # None
        THEN Raise("ValueError", "Failed to parse Stoup Ballard website")
        ELSE Ok(events)

\* Parser classes a registry can hold.  DirectParser is a registered parser
\* whose parse() lets its exceptions reach the coordinator unchanged (the
\* parsers of the test-suite); the two Ctor classes are parsers whose
\* constructor raises; HangingParser is a parser whose parse() awaits
\* something that never completes.
ParserClasses ==
    {"StoupBallardParser", "DirectParser", "KeyErrorCtorParser",
     "BrokenCtorParser", "HangingParser"}

\* ParserRegistry.get_parser
get_parser(registry, key) ==
    IF key \notin DOMAIN registry
    THEN Raise("ValueError", "No parser found for key")
    ELSE Ok(registry[key])

\* parser_class(brewery)
Construct(cls) ==
    CASE cls = "KeyErrorCtorParser" -> Raise("KeyError", "ctor")
      [] cls = "BrokenCtorParser" -> Raise("RuntimeError", "ctor")
      [] OTHER -> Ok(cls)

\* Outcomes the environment can give one parse() call of a parser class
\* during a run: for a page-fetching parser what the transport does (one
\* status stands for every non-200 response), for a DirectParser the
\* exception parse() raises (None: it returns), for a HangingParser
\* nothing.
Outcomes(cls) ==
    IF cls = "StoupBallardParser"
    THEN {"200", "404", "TimeoutError", "ClientError"}
    ELSE IF cls = "HangingParser" THEN {}
    ELSE {None, "TimeoutError", "ServerTimeoutError", "ClientError",
          "ValueError", "RuntimeError"}

\* A site's behaviour over the attempts of a run: "any" leaves the outcome
\* of the attempt open, anything else fixes it (a mock with a side_effect
\* list).  Unscripted leaves every attempt of every brewery open.
Attempts == 0..(MaxRetries - 1)

Unscripted == [k \in 1..MaxSources |-> [a \in Attempts |-> "any"]]

\* The fixed behaviours: always returns, always raises ValueError, raises
\* ClientError once and then returns, always raises ClientError.
Scripts ==
    { [a \in Attempts |-> None], [a \in Attempts |-> "ValueError"],
      [a \in Attempts |-> IF a = 0 THEN "ClientError" ELSE None],
      [a \in Attempts |-> "ClientError"] }

\* the outcomes attempt `attempt` of brewery `key` can have
AttemptOutcomes(cls, key, attempt) ==
    IF script[key][attempt] = "any" THEN Outcomes(cls)
    ELSE Outcomes(cls) \cap {script[key][attempt]}

\* the event lists a returning attempt of brewery `key` can return
AttemptEvents(key, attempt) ==
    IF script[key][attempt] = "any" THEN EventLists(key)
    ELSE {<<FoodTruckEvent(key, 0, 0, NoTime, FALSE)>>}

\* await parser.parse(session), for outcome o and extracted events
parse(cls, o, events) ==
    IF cls = "StoupBallardParser"
    THEN StoupBallardParser_parse(o, events)
    ELSE IF o = None THEN Ok(events) ELSE Raise(o, "parse")

\* ------------------------------------------------------------- coordinator
\* Mutant of error_type: the ClientError clause placed before the timeout
\* clause.
error_type_reordered(exc) ==
    IF IsInstance(exc, "ClientError") THEN "Network Error"
    ELSE IF IsInstance(exc, "TimeoutError") THEN "Network Timeout"
    ELSE IF IsInstance(exc, "ValueError") THEN "Parser Error"
    ELSE "Unexpected Error"

\* The except clauses of the attempt loop, in source order.
error_type(exc) ==
    IF IsInstance(exc, "TimeoutError") THEN "Network Timeout"
    ELSE IF IsInstance(exc, "ClientError") THEN "Network Error"
    ELSE IF IsInstance(exc, "ValueError") THEN "Parser Error"
    ELSE "Unexpected Error"

\* Mutant of Retryable: the ValueError clause retries like the others.
RetryableAlways(exc) == TRUE

\* Mutant of Retryable: the `except Exception` clause gives up at once.
RetryableNetworkOnly(exc) ==
    IsInstance(exc, "TimeoutError") \/ IsInstance(exc, "ClientError")

\* Clauses that test `attempt == self.max_retries - 1` and otherwise sleep.
Retryable(exc) == error_type(exc) # "Parser Error"

\* Mutant of IsLastAttempt: off by one, attempt == self.max_retries.
IsLastAttemptOffByOne(attempt, retries) == attempt = retries

\* attempt == self.max_retries - 1
IsLastAttempt(attempt, retries) == attempt = retries - 1

\* Mutant of wait_time: linear backoff, attempt + 1.
wait_time_linear(attempt) == attempt + 1

\* wait_time = 2**attempt
wait_time(attempt) == 2 ^ attempt

\* ScrapingError(brewery=..., error_type=...)
ScrapingError(brewery, etype) == [brewery |-> brewery, error_type |-> etype]

\* A coroutine as gather receives it.  Besides the coroutine's own state
\* (pc, attempt, parser, result, exc, events) the record keeps its history:
\* calls made, waits slept, what the last completed parse() did (cause,
\* raised, parse_ok, parsed), whether every attempt so far failed
\* retryably, and for how many clock ticks the current parse() has been
\* awaited.
NewTask ==
    [pc |-> "created", attempt |-> 0, parser |-> None, resolved |-> None,
     elapsed |-> 0,
     get_parser_calls |-> 0, parse_calls |-> 0, sleeps |-> <<>>,
     cause |-> None, raised |-> None, parse_ok |-> FALSE, parsed |-> <<>>,
     only_retryable |-> TRUE,
     result |-> "pending", exc |-> None, events |-> <<>>]

Sources == 1..Len(breweries)

Done(i) == tasks[i].pc = "done"

\* Mutant of Return: `return []` where the code returns `events`.
ReturnNothing(t, events) ==
    [t EXCEPT !.pc = "done", !.result = "list", !.events = <<>>]

\* Mutant of Return: an attempt that returned no events is taken for a
\* failure and retried after the backoff wait.
ReturnEmptyRetries(t, events) ==
    IF t.parse_ok /\ events = <<>> /\ t.attempt + 1 < max_retries
    THEN [t EXCEPT !.pc = "sleeping", !.sleeps = Append(@, 2 ^ t.attempt)]
    ELSE [t EXCEPT !.pc = "done", !.result = "list", !.events = events]

\* `return events` / `return []`
Return(t, events) ==
    [t EXCEPT !.pc = "done", !.result = "list", !.events = events]

\* an exception leaves the coroutine; gather(return_exceptions=True) keeps it
Escape(t, exc) ==
    [t EXCEPT !.pc = "done", !.result = "exception", !.exc = exc]

\* Mutant of EnterLoop: with the attempts used up the coroutine waits
\* again where the code leaves the loop and returns.
EnterLoopNoExit(t, attempt) ==
    IF attempt < max_retries
    THEN [t EXCEPT !.pc = "parsing", !.attempt = attempt,
                   !.parse_calls = @ + 1, !.cause = None, !.raised = None,
                   !.elapsed = 0]
    ELSE [t EXCEPT !.pc = "sleeping"]

\* for attempt in range(self.max_retries): ... await parser.parse(session)
EnterLoop(t, attempt) ==
    IF attempt < max_retries
    THEN [t EXCEPT !.pc = "parsing", !.attempt = attempt,
                   !.parse_calls = @ + 1, !.cause = None, !.raised = None,
                   !.elapsed = 0]
    ELSE Return(t, <<>>)

\* no helper is called on its own
NoCall == [fn |-> "none", arg |-> <<>>]

\* the helper has not returned yet
NotCalled == [done |-> FALSE, value |-> <<>>]

\* no scrape_all call has ended yet
NoRun == [pc |-> "idle", breweries |-> <<>>, errors |-> <<>>, returned |-> <<>>]

\* Mutant of Backoff: the next attempt starts at once, without the wait.
BackoffSkipped(t) == EnterLoop(t, t.attempt + 1)

\* wait_time = 2**attempt; await asyncio.sleep(wait_time)
Backoff(t) ==
    [t EXCEPT !.pc = "sleeping", !.sleeps = Append(@, wait_time(t.attempt))]

Init ==
    /\ parsers \in UNION { [ks -> ParserClasses] : ks \in SUBSET (1..MaxSources) }
    /\ max_retries \in 0..MaxRetries
    /\ breweries = <<>>
    /\ pc = "idle"
    /\ errors = <<>>
    /\ tasks = <<>>
    /\ appends = <<>>
    /\ all_events = <<>>
    /\ returned = <<>>
    /\ now = [hour |-> 12, dst |-> FALSE]
    /\ script = Unscripted
    /\ prev = NoRun
    /\ call = NoCall
    /\ out = NotCalled
    /\ order = <<>>
    /\ registered = <<>>

\* Mutant of reset_errors: the list of the previous run is kept.
errors_kept(errs) == errs

\* self.errors = []
reset_errors(errs) == <<>>

\* scrape_all, up to `await asyncio.gather(...)`
ScrapeAll ==
    /\ pc = "idle"
    /\ \E n \in 0..MaxSources :
          /\ breweries' = [i \in 1..n |-> i]
          /\ tasks' = [i \in 1..n |-> NewTask]
          /\ appends' = [i \in 1..n |-> 0]
    /\ errors' = reset_errors(errors)
    /\ pc' = "gather"
    /\ UNCHANGED <<parsers, max_retries, all_events, returned,
                   now, script, prev, helpers>>

\* _scrape_brewery_with_error_handling up to its first await: the registry
\* lookup, the constructor, and the first parse() call.  asyncio starts the
\* tasks of one gather in argument order.
TaskStart(i) ==
    /\ pc = "gather"
    /\ tasks[i].pc = "created"
    /\ \A j \in 1..(i - 1) : tasks[j].pc # "created"
    /\ LET cls == get_parser(parsers, breweries[i])
           obj == IF cls.exc = None THEN Construct(cls.value) ELSE cls
           t0 == [tasks[i] EXCEPT !.get_parser_calls = @ + 1,
                     !.resolved = IF obj.exc = None THEN "ok" ELSE obj.exc]
       IN  IF obj.exc = None
           THEN /\ tasks' = [tasks EXCEPT ![i] =
                               EnterLoop([t0 EXCEPT !.parser = obj.value], 0)]
                /\ UNCHANGED <<errors, appends>>
           ELSE IF IsInstance(obj.exc, "KeyError")
           THEN /\ errors' = Append(errors,
                       ScrapingError(breweries[i], "Configuration Error"))
                /\ appends' = [appends EXCEPT ![i] = @ + 1]
                /\ tasks' = [tasks EXCEPT ![i] = Return(t0, <<>>)]
           ELSE /\ tasks' = [tasks EXCEPT ![i] = Escape(t0, obj.exc)]
                /\ UNCHANGED <<errors, appends>>
    /\ UNCHANGED <<parsers, max_retries, breweries, pc, all_events, returned,
                   now, script, prev, helpers>>

\* parser.parse(session) completes, and the loop body runs to its next
\* await or return.
ParseCompletes(i) ==
    /\ pc = "gather"
    /\ tasks[i].pc = "parsing"
    /\ \E o \in AttemptOutcomes(tasks[i].parser, breweries[i], tasks[i].attempt),
          evs \in {<<>>} \cup AttemptEvents(breweries[i], tasks[i].attempt) :
          LET r == parse(tasks[i].parser, o, evs)
              t1 == [tasks[i] EXCEPT !.cause = o, !.raised = r.exc,
                        !.only_retryable = @ /\ IsRetryableFailure(r.exc)]
              t0 == [t1 EXCEPT !.parse_ok = TRUE, !.parsed = r.value]
          IN  /\ r.exc # None => evs = <<>>
              /\ r.exc = None =>
                    evs \in AttemptEvents(breweries[i], tasks[i].attempt)
              /\ IF r.exc = None
                 THEN /\ tasks' = [tasks EXCEPT ![i] = Return(t0, r.value)]
                      /\ UNCHANGED <<errors, appends>>
                 ELSE IF ~Retryable(r.exc)
                         \/ IsLastAttempt(tasks[i].attempt, max_retries)
                 THEN /\ errors' = Append(errors,
                             ScrapingError(breweries[i], error_type(r.exc)))
                      /\ appends' = [appends EXCEPT ![i] = @ + 1]
                      /\ tasks' = [tasks EXCEPT ![i] = Return(t1, <<>>)]
                 ELSE /\ tasks' = [tasks EXCEPT ![i] = Backoff(t1)]
                      /\ UNCHANGED <<errors, appends>>
    /\ UNCHANGED <<parsers, max_retries, breweries, pc, all_events, returned,
                   now, script, prev, helpers>>

\* longest wait on one parse() the clock follows
MaxElapsed == timeout + 1

\* A clock tick passes while `await parser.parse(session)` of a parser that
\* never returns is pending: the await is not wrapped in asyncio.wait_for,
\* and self.timeout is only handed to the aiohttp session, so the task
\* stays suspended.
Tick(i) ==
    /\ pc = "gather"
    /\ tasks[i].pc = "parsing"
    /\ tasks[i].parser = "HangingParser"
    /\ tasks[i].elapsed < MaxElapsed
    /\ tasks' = [tasks EXCEPT ![i].elapsed = @ + 1]
    /\ UNCHANGED <<parsers, max_retries, breweries, pc, errors, appends,
                   all_events, returned,
                   now, script, prev, helpers>>

\* asyncio.sleep(wait_time) completes: next iteration of the loop
SleepCompletes(i) ==
    /\ pc = "gather"
    /\ tasks[i].pc = "sleeping"
    /\ tasks' = [tasks EXCEPT ![i] = EnterLoop(tasks[i], tasks[i].attempt + 1)]
    /\ UNCHANGED <<parsers, max_retries, breweries, pc, errors, appends,
                   all_events, returned,
                   now, script, prev, helpers>>

\* ------------------------------------------------- aggregation and sorting
\* An instant: the hours elapsed since 00:00 of day 0 on a clock fixed at
\* UTC-8, and whether daylight-saving time is in effect in
\* America/Los_Angeles at that instant.
Instants == { [hour |-> h, dst |-> d] : h \in {12, 23, 36}, d \in BOOLEAN }

\* `now.date()` of _filter_and_sort_events: the date on the UTC-8 clock.
today == now.hour \div 24

\* now_in_pacific().date(): the date on the America/Los_Angeles clock, which
\* is one hour ahead of UTC-8 while daylight-saving time is in effect.
now_in_pacific_date == (now.hour + (IF now.dst THEN 1 ELSE 0)) \div 24

\* x.date as minutes since 00:00 of day 0
DateTime(e) == e.date * 1440 + e.minute

\* the second component of the sort key: x.start_time or x.date
start_or_date(e) ==
    IF e.start_time = NoTime THEN DateTime(e) ELSE e.date * 1440 + e.start_time

\* the key's second component is an offset-aware datetime
IsAware(e) == e.start_time # NoTime /\ e.aware

\* key(a) < key(b) raises TypeError: equal x.date, then an offset-naive
\* datetime ordered against an offset-aware one
Incomparable(a, b) == DateTime(a) = DateTime(b) /\ IsAware(a) # IsAware(b)

\* key(a) <= key(b) for the tuples (x.date, x.start_time or x.date)
KeyLeq(a, b) ==
    \/ DateTime(a) < DateTime(b)
    \/ DateTime(a) = DateTime(b) /\ start_or_date(a) <= start_or_date(b)

RECURSIVE InsertUnique(_, _)
\* Mutant of Insert: an event equal to one already placed is dropped.
InsertUnique(e, s) ==
    IF s = <<>> THEN <<e>>
    ELSE IF s[Len(s)] = e THEN s
    ELSE IF KeyLeq(s[Len(s)], e) THEN Append(s, e)
    ELSE Append(InsertUnique(e, SubSeq(s, 1, Len(s) - 1)), s[Len(s)])

RECURSIVE Insert(_, _)
\* e goes behind every element whose key is not greater (list.sort is stable)
Insert(e, s) ==
    IF s = <<>> THEN <<e>>
    ELSE IF KeyLeq(s[Len(s)], e) THEN Append(s, e)
    ELSE Append(Insert(e, SubSeq(s, 1, Len(s) - 1)), s[Len(s)])

RECURSIVE Sort(_)
\* filtered_events.sort(key=...)
Sort(s) ==
    IF s = <<>> THEN <<>>
    ELSE Insert(s[Len(s)], Sort(SubSeq(s, 1, Len(s) - 1)))

\* Mutant of InWindow: the upper bound of the window is exclusive.
InWindowExclusive(e) == today <= e.date /\ e.date < today + 7

\* now.date() <= event.date.date() <= one_week_later.date()
InWindow(e) == today <= e.date /\ e.date <= today + 7

\* Mutant of filter_and_sort_events: an empty list is refused.
filter_and_sort_refuses_empty(events) ==
    LET filtered_events == SelectSeq(events, InWindow)
    IN  IF events = <<>> \/ \E a, b \in 1..Len(filtered_events) :
              Incomparable(filtered_events[a], filtered_events[b])
        THEN Raise("TypeError", "can't compare offset-naive and offset-aware")
        ELSE Ok(Sort(filtered_events))

\* ScraperCoordinator._filter_and_sort_events
filter_and_sort_events(events) ==
    LET filtered_events == SelectSeq(events, InWindow)
    IN  IF \E a, b \in 1..Len(filtered_events) :
              Incomparable(filtered_events[a], filtered_events[b])
        THEN Raise("TypeError", "can't compare offset-naive and offset-aware")
        ELSE Ok(Sort(filtered_events))

\* Mutant of AggregateErrors: an empty result is taken for a failure too.
AggregateErrorsEmptyIsFailure(results, n) ==
    LET failed == { k \in 1..n : results[k].result = "exception"
                                    \/ results[k].events = <<>> }
        F[k \in 0..n] ==
            IF k = 0 THEN <<>>
            ELSE IF k \in failed
                 THEN Append(F[k - 1],
                             ScrapingError(breweries[k], "Unexpected Error"))
                 ELSE F[k - 1]
    IN  F[n]

\* Mutant of AggregateErrors: the k-th exception found is attributed to the
\* k-th brewery of the list, not to the brewery of the task that raised.
AggregateErrorsByCount(results, n) ==
    LET F[k \in 0..n] ==
            IF k = 0 THEN <<>>
            ELSE IF results[k].result = "exception"
                 THEN Append(F[k - 1],
                             ScrapingError(breweries[Len(F[k - 1]) + 1],
                                           "Unexpected Error"))
                 ELSE F[k - 1]
    IN  F[n]

RECURSIVE AggregateErrors(_, _)
\* the errors the aggregation loop appends for results[1..n]
AggregateErrors(results, n) ==
    IF n = 0 THEN <<>>
    ELSE LET rest == AggregateErrors(results, n - 1)
         IN  IF results[n].result = "exception"
             THEN Append(rest, ScrapingError(breweries[n], "Unexpected Error"))
             ELSE rest

\* Mutant of AggregateEvents: the loop stops at the first exception result
\* (`break` where the code says `continue`).
AggregateEventsBreak(results, n) ==
    LET F[k \in 0..n] ==
            IF k = 0 THEN <<>>
            ELSE IF results[k].result = "list"
                    /\ \A j \in 1..k : results[j].result # "exception"
                 THEN F[k - 1] \o results[k].events
                 ELSE F[k - 1]
    IN  F[n]

RECURSIVE AggregateEvents(_, _)
\* all_events after the aggregation loop has seen results[1..n]
AggregateEvents(results, n) ==
    IF n = 0 THEN <<>>
    ELSE LET rest == AggregateEvents(results, n - 1)
         IN  IF results[n].result = "list"
             THEN rest \o results[n].events
             ELSE rest

\* scrape_all after gather: the aggregation loop, then filter and sort
Aggregate ==
    /\ pc = "gather"
    /\ \A i \in Sources : Done(i)
    /\ LET n == Len(breweries)
           merged == AggregateEvents(tasks, n)
           r == filter_and_sort_events(merged)
       IN  /\ errors' = errors \o AggregateErrors(tasks, n)
           /\ appends' = [i \in Sources |->
                   IF tasks[i].result = "exception"
                   THEN appends[i] + 1 ELSE appends[i]]
           /\ all_events' = merged
           /\ IF r.exc = None
              THEN pc' = "returned" /\ returned' = r.value
              ELSE pc' = "raised" /\ returned' = <<>>
    /\ UNCHANGED <<parsers, max_retries, breweries, tasks,
                   now, script, prev, helpers>>

Next ==
    \/ ScrapeAll
    \/ \E i \in Sources : TaskStart(i)
    \/ \E i \in Sources : ParseCompletes(i)
    \/ \E i \in Sources : SleepCompletes(i)
    \/ \E i \in Sources : Tick(i)
    \/ Aggregate

Spec == Init /\ [][Next]_vars

\* The event loop never idles while something can run: as long as a task
\* can start, a parse() call or an asyncio.sleep can complete, or gather is
\* complete, one of these steps is taken.
Fairness == WF_vars(Next)

\* Coordinators for the runs followed to their end: max_retries 0 or the
\* default 3, and a registry with a parser whose parse() can end in every
\* way, a parser whose parse() never returns, and keys left unregistered.
InitLive ==
    /\ Init
    /\ max_retries \in {0, 3}
    /\ \A k \in DOMAIN parsers : parsers[k] \in {"DirectParser", "HangingParser"}

SpecLive == InitLive /\ [][Next]_vars /\ Fairness

\* ------------------------------------- one coordinator, several runs
\* A coordinator with max_retries 1 or 2 whose registry holds a DirectParser
\* for every key, and sites that behave the same way in every run.
InitRuns ==
    /\ parsers = [k \in 1..MaxSources |-> "DirectParser"]
    /\ max_retries \in {1, 2}
    /\ breweries = <<>>
    /\ pc = "idle"
    /\ errors = <<>>
    /\ tasks = <<>>
    /\ appends = <<>>
    /\ all_events = <<>>
    /\ returned = <<>>
    /\ now = [hour |-> 12, dst |-> FALSE]
    /\ script \in [1..MaxSources -> Scripts]
    /\ prev = NoRun
    /\ call = NoCall
    /\ out = NotCalled
    /\ order = <<>>
    /\ registered = <<>>

\* scrape_all is called again on the same coordinator after a call has
\* ended, up to `await asyncio.gather(...)`
ScrapeAgain ==
    /\ pc \in {"returned", "raised"}
    /\ \E n \in 0..MaxSources :
          /\ breweries' = [i \in 1..n |-> i]
          /\ tasks' = [i \in 1..n |-> NewTask]
          /\ appends' = [i \in 1..n |-> 0]
    /\ errors' = reset_errors(errors)
    /\ pc' = "gather"
    /\ all_events' = <<>>
    /\ returned' = <<>>
    /\ prev' = [pc |-> pc, breweries |-> breweries, errors |-> errors,
                returned |-> returned]
    /\ UNCHANGED <<parsers, max_retries, now, script, helpers>>

NextRuns ==
    \/ ScrapeAll
    \/ ScrapeAgain
    \/ \E i \in Sources : TaskStart(i)
    \/ \E i \in Sources : ParseCompletes(i)
    \/ \E i \in Sources : SleepCompletes(i)
    \/ Aggregate

SpecRuns == InitRuns /\ [][NextRuns]_vars

\* ------------------------------------------ the final filter on its own
\* The events the registered parsers can hand to the filter.  On day 0: no
\* time, 14:00 naive, 14:00 aware (date at midnight, as the HTML parsers
\* build them); 13:00 with date = start_time (SeattleFoodTruckApiParser,
\* BaleBreakerParser); no time with date = 15:00 (BaleBreakerParser's
\* fallback event, date=datetime.now()).  One event each on the day before,
\* on day 7 and on day 8.
FilterEvents ==
    Events(1) \cup
    { FoodTruckEvent(1, 0, 780, 780, FALSE),
      FoodTruckEvent(1, 0, 900, NoTime, FALSE),
      FoodTruckEvent(1, 0 - 1, 0, NoTime, FALSE),
      FoodTruckEvent(1, 7, 0, NoTime, FALSE) }

\* _filter_and_sort_events is called with any list of these events, at any
\* instant.
InitFilter ==
    /\ parsers = <<>>
    /\ max_retries = 3
    /\ breweries = <<>>
    /\ pc = "merged"
    /\ errors = <<>>
    /\ tasks = <<>>
    /\ appends = <<>>
    /\ all_events \in UNION { [1..n -> FilterEvents] : n \in 0..MaxEvents }
    /\ returned = <<>>
    /\ now \in Instants
    /\ script = Unscripted
    /\ prev = NoRun
    /\ call = NoCall
    /\ out = NotCalled
    /\ order = <<>>
    /\ registered = <<>>

\* return self._filter_and_sort_events(all_events)
FilterAndSort ==
    /\ pc = "merged"
    /\ LET r == filter_and_sort_events(all_events)
       IN  IF r.exc = None
           THEN pc' = "returned" /\ returned' = r.value
           ELSE pc' = "raised" /\ returned' = <<>>
    /\ UNCHANGED <<parsers, max_retries, breweries, errors, tasks, appends,
                   all_events,
                   now, script, prev, helpers>>

NextFilter == FilterAndSort

SpecFilter == InitFilter /\ [][NextFilter]_vars

\* ------------------------------------------- helpers called on their own
\* Strings are sequences of characters; an Optional value is the empty
\* sequence (None) or a sequence of one element.
RECURSIVE lstrip(_)
lstrip(str) ==
    IF str # <<>> /\ Head(str) = " " THEN lstrip(Tail(str)) ELSE str

RECURSIVE rstrip(_)
rstrip(str) ==
    IF str # <<>> /\ str[Len(str)] = " "
    THEN rstrip(SubSeq(str, 1, Len(str) - 1)) ELSE str

\* str.strip()
strip(str) == rstrip(lstrip(str))

\* Mutant of validate_event: the name is not stripped before the test.
validate_event_unstripped(event) ==
    IF event.brewery_key = <<>> \/ event.brewery_name = <<>> THEN FALSE
    ELSE IF event.food_truck_name = <<>> THEN FALSE
    ELSE IF event.date = <<>> THEN FALSE
    ELSE TRUE

\* BaseParser.validate_event
validate_event(event) ==
    IF event.brewery_key = <<>> \/ event.brewery_name = <<>> THEN FALSE
    ELSE IF event.food_truck_name = <<>> \/ strip(event.food_truck_name) = <<>>
    THEN FALSE
    ELSE IF event.date = <<>> THEN FALSE
    ELSE TRUE

RECURSIVE filter_valid_events_reversed(_)
\* Mutant of filter_valid_events: valid events are collected in reverse.
filter_valid_events_reversed(events) ==
    IF events = <<>> THEN <<>>
    ELSE LET valid_events == filter_valid_events_reversed(Tail(events))
         IN  IF validate_event(Head(events))
             THEN Append(valid_events, Head(events))
             ELSE valid_events

RECURSIVE filter_valid_events(_)
\* BaseParser.filter_valid_events
filter_valid_events(events) ==
    IF events = <<>> THEN <<>>
    ELSE LET valid_events ==
                 filter_valid_events(SubSeq(events, 1, Len(events) - 1))
             event == events[Len(events)]
         IN  IF validate_event(event)
             THEN Append(valid_events, event)
             ELSE valid_events

\* StoupBallardParser._parse_time for the tuple the time pattern captured,
\* as hours of the day: <<>> for (None, None)
StoupBallardParser_parse_time(time_tuple) ==
    LET period == time_tuple[3]
        start_hour ==
            IF period = "pm" /\ time_tuple[1] # 12 THEN time_tuple[1] + 12
            ELSE IF period = "am" /\ time_tuple[1] = 12 THEN 0
            ELSE time_tuple[1]
        end_hour ==
            IF period = "pm" /\ time_tuple[2] # 12 THEN time_tuple[2] + 12
            ELSE IF period = "am" /\ time_tuple[2] = 12 THEN 0
            ELSE time_tuple[2]
    IN  IF period \notin {"am", "pm"} THEN <<>>
        ELSE IF start_hour < 0 \/ start_hour > 23 \/ end_hour < 0 \/ end_hour > 23
        THEN <<>>
        ELSE <<start_hour, end_hour>>

\* ScrapingError.to_user_message
to_user_message(error) ==
    <<"Failed to fetch information for brewery: ", error.brewery_name>>

\* format_events_output: the lines under "Errors:", one per error
format_events_output(errs) ==
    [k \in 1..Len(errs) |-> <<errs[k].brewery_name, errs[k].message>>]

RECURSIVE error_messages(_)
\* DeploymentActivities.generate_web_data: the user messages of the errors,
\* then list(dict.fromkeys(error_messages))
error_messages(errs) ==
    IF errs = <<>> THEN <<>>
    ELSE LET rest == error_messages(SubSeq(errs, 1, Len(errs) - 1))
             m == to_user_message(errs[Len(errs)])
         IN  IF \E k \in 1..Len(rest) : rest[k] = m THEN rest
             ELSE Append(rest, m)

\* ---- the vision fallback
\* What one call of client.messages.create does: it answers with a name,
\* with "UNKNOWN", or raises.
ApiOutcomes == {"name", "UNKNOWN", "APITimeoutError", "APIError", "Exception"}

\* VisionAnalyzer._analyze_image_by_url: the answer cleaned, None for
\* "UNKNOWN"; every exception of the API call is logged and becomes None.
analyze_image_by_url(api) ==
    IF api = "name" THEN Ok("Vision Name") ELSE Ok(None)

\* VisionAnalyzer.analyze_food_truck_image from iteration `attempt` of its
\* loop on: the value returned and the number of _analyze_image_by_url
\* calls made.
RECURSIVE analyze_food_truck_image(_, _)
analyze_food_truck_image(arg, attempt) ==
    IF ~arg.valid THEN [result |-> None, invocations |-> 0, exc |-> None]
    ELSE IF attempt > arg.max_retries
    THEN [result |-> None, invocations |-> attempt, exc |-> None]
    ELSE LET r == analyze_image_by_url(arg.api[attempt + 1])
         IN  IF r.exc = None
             THEN [result |-> r.value, invocations |-> attempt + 1,
                   exc |-> None]
             ELSE IF IsInstance(r.exc, "APITimeoutError")
             THEN analyze_food_truck_image(arg, attempt + 1)
             ELSE IF IsInstance(r.exc, "APIError")
             THEN [result |-> None, invocations |-> attempt + 1,
                   exc |-> None]
             ELSE analyze_food_truck_image(arg, attempt + 1)

\* Calls of the analyzer: the URL passes _is_valid_image_url or not, the
\* retries allowed, and what the API does at each call it may receive.
VisionCalls ==
    UNION { [valid : BOOLEAN, max_retries : {m}, api : [1..(m + 1) -> ApiOutcomes]] :
            m \in 0..MaxVisionRetries }

\* ---- parsers with a vision fallback
\* Items of an API response: the title names the vendor or not, there is
\* an image or not, the date can be read or not, and what the analyzer does
\* when it is asked about the image: a name, no name, an exception, or no
\* result within the 30 seconds of future.result.
Items ==
    { [eventTitle |-> "name", eventImage |-> "u1", date |-> TRUE,
       vision |-> "name"],
      [eventTitle |-> None, eventImage |-> None, date |-> TRUE,
       vision |-> "none"],
      [eventTitle |-> None, eventImage |-> "u1", date |-> FALSE,
       vision |-> "raises"] } \cup
    { [eventTitle |-> None, eventImage |-> "u1", date |-> TRUE, vision |-> v] :
        v \in {"name", "none", "raises", "timeout"} }

ItemLists == UNION { [1..n -> Items] : n \in 0..MaxItems }

\* _extract_name_from_text_fields
extract_name_from_text_fields(item) ==
    IF item.eventTitle = "name" THEN "Text Name" ELSE None

\* self.vision_analyzer.analyze_food_truck_image(image_url), run in a
\* thread and awaited with future.result(timeout=30)
vision_name(item) ==
    CASE item.vision = "name" -> Ok("Vision Name")
      [] item.vision = "none" -> Ok(None)
      [] item.vision = "raises" -> Raise("Exception", "vision")
      [] OTHER -> Raise("TimeoutError", "future.result")

\* what _extract_food_truck_name gives: the name, the flag, the cache as it
\* leaves it, whether the analyzer was called, and the exception it lets out
Extracted(name, ai, cache, called) ==
    [name |-> name, ai |-> ai, cache |-> cache, called |-> called, exc |-> None]

cache_set(cache, url, value) ==
    [u \in DOMAIN cache \cup {url} |-> IF u = url THEN value ELSE cache[u]]

\* Mutant of extract_food_truck_name: an exception of the analyzer is not
\* caught.
extract_food_truck_name_uncaught(parser, item, cache) ==
    LET name == extract_name_from_text_fields(item)
        url == item.eventImage
        v == vision_name(item)
    IN  IF name # None THEN Extracted(name, FALSE, cache, FALSE)
        ELSE IF url = None THEN Extracted(None, FALSE, cache, FALSE)
        ELSE IF url \in DOMAIN cache /\ cache[url] # None
        THEN Extracted(cache[url], parser = "HiveyApiParser", cache, FALSE)
        ELSE IF url \in DOMAIN cache /\ parser = "UrbanFamilyParser"
        THEN Extracted(None, FALSE, cache, FALSE)
        ELSE IF v.exc # None
        THEN [Extracted(None, FALSE, cache, TRUE) EXCEPT !.exc = v.exc]
        ELSE Extracted(v.value, parser = "HiveyApiParser" /\ v.value # None,
                       cache_set(cache, url, v.value), TRUE)

\* Mutant of extract_food_truck_name: a name found in the text fields is
\* flagged as generated.
extract_food_truck_name_flagged(parser, item, cache) ==
    LET name == extract_name_from_text_fields(item)
        url == item.eventImage
        v == vision_name(item)
    IN  IF name # None
        THEN Extracted(name, parser = "HiveyApiParser", cache, FALSE)
        ELSE IF url = None THEN Extracted(None, FALSE, cache, FALSE)
        ELSE IF url \in DOMAIN cache /\ cache[url] # None
        THEN Extracted(cache[url], parser = "HiveyApiParser", cache, FALSE)
        ELSE IF url \in DOMAIN cache /\ parser = "UrbanFamilyParser"
        THEN Extracted(None, FALSE, cache, FALSE)
        ELSE IF v.exc # None
        THEN Extracted(None, FALSE,
                       IF parser = "UrbanFamilyParser"
                       THEN cache_set(cache, url, None) ELSE cache, TRUE)
        ELSE Extracted(v.value, parser = "HiveyApiParser" /\ v.value # None,
                       cache_set(cache, url, v.value), TRUE)

\* HiveyApiParser._extract_food_truck_name and
\* UrbanFamilyParser._extract_food_truck_name.  The first returns the flag
\* with the name and asks the analyzer again after a cached None; the second
\* returns the name only (its events keep the default flag, False), stops
\* at a cached None and caches None after an exception.
extract_food_truck_name(parser, item, cache) ==
    LET name == extract_name_from_text_fields(item)
        url == item.eventImage
        v == vision_name(item)
    IN  IF name # None THEN Extracted(name, FALSE, cache, FALSE)
        ELSE IF url = None THEN Extracted(None, FALSE, cache, FALSE)
        ELSE IF url \in DOMAIN cache /\ cache[url] # None
        THEN Extracted(cache[url], parser = "HiveyApiParser", cache, FALSE)
        ELSE IF url \in DOMAIN cache /\ parser = "UrbanFamilyParser"
        THEN Extracted(None, FALSE, cache, FALSE)
        ELSE IF v.exc # None
        THEN Extracted(None, FALSE,
                       IF parser = "UrbanFamilyParser"
                       THEN cache_set(cache, url, None) ELSE cache, TRUE)
        ELSE Extracted(v.value, parser = "HiveyApiParser" /\ v.value # None,
                       cache_set(cache, url, v.value), TRUE)

\* _parse_event_item for item k: the event, or <<>> for None; an exception
\* raised inside is caught and gives None
parse_event_item(parser, item, k, r) ==
    IF r.exc # None THEN <<>>
    ELSE IF ~item.date THEN <<>>
    ELSE <<[item |-> k,
            food_truck_name |-> IF r.name = None THEN "TBD" ELSE r.name,
            ai_generated_name |-> IF r.name = None THEN FALSE ELSE r.ai]>>

RECURSIVE parse_json_data(_, _, _)
\* _parse_json_data after the first n items of the list, with the parser's
\* _vision_cache and, as history, the items the analyzer was called for
parse_json_data(parser, data, n) ==
    IF n = 0
    THEN [events |-> <<>>, cache |-> <<>>, vision_calls |-> <<>>, exc |-> None]
    ELSE LET before == parse_json_data(parser, data, n - 1)
             r == extract_food_truck_name(parser, data[n], before.cache)
         IN  [events |-> before.events \o parse_event_item(parser, data[n], n, r),
              cache |-> r.cache,
              vision_calls |-> IF r.called THEN Append(before.vision_calls, n)
                               ELSE before.vision_calls,
              exc |-> None]

\* ---- the workflow
\* A workflow execution: params.deploy, and what its activities do when
\* they are executed: each completes or fails (the exception
\* execute_activity raises once the activity has failed for good), the
\* scrape returning `events` events and `errors` serialized errors.
WorkflowRuns ==
    [deploy : BOOLEAN, load_brewery_config : BOOLEAN, scrape_food_trucks : BOOLEAN,
     events : 0..MaxEvents, errors : 0..MaxErrors,
     generate_web_data : BOOLEAN, deploy_to_git : BOOLEAN]

\* Mutant of should_deploy: the event list is not looked at.
should_deploy_always(deploy, events) == deploy

\* `if params.deploy and events:`
should_deploy(deploy, events) == deploy /\ events > 0

\* Mutant of WorkflowFailed: the exception is raised again.
WorkflowFailedRaises(started) ==
    [success |-> FALSE, events_count |-> 0, errors |-> 1, deployed |-> FALSE,
     started |-> started, exc |-> "ActivityError"]

\* the `except Exception` clause of FoodTruckWorkflow.run; `errors` is the
\* length of the list of error strings, `started` the activities executed
WorkflowFailed(started) ==
    [success |-> FALSE, events_count |-> 0, errors |-> 1, deployed |-> FALSE,
     started |-> started, exc |-> None]

\* FoodTruckWorkflow.run
FoodTruckWorkflow_run(params) ==
    LET step1 == <<"load_brewery_config">>
        step2 == Append(step1, "scrape_food_trucks")
        step3 == Append(step2, "generate_web_data")
        step4 == Append(step3, "deploy_to_git")
    IN  IF ~params.load_brewery_config THEN WorkflowFailed(step1)
        ELSE IF ~params.scrape_food_trucks THEN WorkflowFailed(step2)
        ELSE IF should_deploy(params.deploy, params.events)
        THEN IF ~params.generate_web_data THEN WorkflowFailed(step3)
             ELSE IF ~params.deploy_to_git THEN WorkflowFailed(step4)
             ELSE [success |-> TRUE, events_count |-> params.events,
                   errors |-> params.errors, deployed |-> TRUE,
                   started |-> step4, exc |-> None]
        ELSE [success |-> TRUE, events_count |-> params.events,
              errors |-> params.errors, deployed |-> FALSE,
              started |-> step2, exc |-> None]

\* ---- the command line
\* What the scrape of one configuration does: loading the configuration or
\* scrape_all raises, or the scrape returns events (or none) and errors (or
\* none).
ScrapeOutcomes ==
    [exc : {None, "load_config", "scrape_all"}, events : BOOLEAN, errors : BOOLEAN]

\* Runs of the command line: the mode the arguments select, and the scrape
\* outcome of each configuration processed.
MainRuns ==
    { [mode |-> m, sites |-> <<o>>] :
        m \in {"config", "site"}, o \in ScrapeOutcomes } \cup
    { [mode |-> "list_sites", sites |-> <<>>] } \cup
    { [mode |-> "all_sites", sites |-> l] :
        l \in UNION { [1..n -> ScrapeOutcomes] : n \in 0..MaxSites } }

\* Mutant of exit_code: a run with errors is a failure, with events or not.
exit_code_no_partial(has_events, has_errors) ==
    IF has_errors THEN 1 ELSE 0

\* `if errors and not events: return 1 / elif errors: return 2 / else:
\* return 0`
exit_code(has_events, has_errors) ==
    IF has_errors /\ ~has_events THEN 1
    ELSE IF has_errors THEN 2
    ELSE 0

\* process_single_site, and the legacy branch of main: both end in the
\* same exit-code lines and the same `except Exception: return 1`
process_single_site(o) ==
    IF o.exc # None THEN 1 ELSE exit_code(o.events, o.errors)

\* main
main(run) ==
    CASE run.mode = "list_sites" -> 0
      [] run.mode = "all_sites" ->
            IF run.sites = <<>> THEN 1
            ELSE IF \A k \in 1..Len(run.sites) :
                       process_single_site(run.sites[k]) = 0
                 THEN 0 ELSE 2
      [] OTHER -> process_single_site(run.sites[1])

\* Events a parser can hand to validate_event.
CandidateEvents ==
    [brewery_key : {<<>>, <<"k">>},
     brewery_name : {<<>>, <<"n">>},
     food_truck_name : {<<>>, <<" ">>, <<"t">>, <<" ", "t", " ">>},
     date : {<<>>, <<0>>}]

\* Lists a parser can hand to filter_valid_events: a valid event, another
\* valid event, one with a blank name and one without a date.
CandidateLists ==
    LET E == { [brewery_key |-> <<"k">>, brewery_name |-> <<"n">>,
                food_truck_name |-> <<"t">>, date |-> <<0>>],
               [brewery_key |-> <<"k">>, brewery_name |-> <<"n">>,
                food_truck_name |-> <<" ", "t", " ">>, date |-> <<0>>],
               [brewery_key |-> <<"k">>, brewery_name |-> <<"n">>,
                food_truck_name |-> <<" ">>, date |-> <<0>>],
               [brewery_key |-> <<"k">>, brewery_name |-> <<"n">>,
                food_truck_name |-> <<"t">>, date |-> <<>>] }
    IN  UNION { [1..n -> E] : n \in 0..MaxEvents }

\* Tuples the time pattern of _extract_from_section can capture: two
\* numbers and one period.
TimeTuples == (0..MaxHour) \X (0..MaxHour) \X {"am", "pm"}

\* Error lists a coordinator can hold: two breweries, two raw messages.
ErrorLists ==
    LET E == [brewery_name : {"A", "B"}, message : {"m1", "m2"}]
    IN  UNION { [1..n -> E] : n \in 0..MaxErrors }

Calls ==
    { [fn |-> "validate_event", arg |-> e] : e \in CandidateEvents } \cup
    { [fn |-> "filter_valid_events", arg |-> l] : l \in CandidateLists } \cup
    { [fn |-> "fetch_page", arg |-> t] : t \in Transport } \cup
    { [fn |-> "_parse_time", arg |-> t] : t \in TimeTuples } \cup
    { [fn |-> "format_events_output", arg |-> l] : l \in ErrorLists } \cup
    { [fn |-> "generate_web_data", arg |-> l] : l \in ErrorLists } \cup
    { [fn |-> "analyze_food_truck_image", arg |-> a] : a \in VisionCalls } \cup
    { [fn |-> "FoodTruckWorkflow.run", arg |-> a] : a \in WorkflowRuns } \cup
    { [fn |-> "main", arg |-> a] : a \in MainRuns } \cup
    { [fn |-> "_parse_json_data", arg |-> [parser |-> c, data |-> l]] :
        c \in {"HiveyApiParser", "UrbanFamilyParser"}, l \in ItemLists }

InitHelpers ==
    /\ parsers = <<>>
    /\ max_retries = 3
    /\ breweries = <<>>
    /\ pc = "idle"
    /\ errors = <<>>
    /\ tasks = <<>>
    /\ appends = <<>>
    /\ all_events = <<>>
    /\ returned = <<>>
    /\ now = [hour |-> 12, dst |-> FALSE]
    /\ script = Unscripted
    /\ prev = NoRun
    /\ call \in Calls
    /\ out = NotCalled
    /\ order = <<>>
    /\ registered = <<>>

\* the called helper returns `value`
Returns(value) ==
    /\ ~out.done
    /\ out' = [done |-> TRUE, value |-> value]
    /\ UNCHANGED <<parsers, max_retries, breweries, pc, errors, tasks, appends,
                   all_events, returned, now, script, prev, call, order,
                   registered>>

ValidateEvent ==
    /\ call.fn = "validate_event"
    /\ Returns(validate_event(call.arg))

FilterValidEvents ==
    /\ call.fn = "filter_valid_events"
    /\ Returns(filter_valid_events(call.arg))

FetchPage ==
    /\ call.fn = "fetch_page"
    /\ Returns(fetch_page(call.arg))

ParseTime ==
    /\ call.fn = "_parse_time"
    /\ Returns(StoupBallardParser_parse_time(call.arg))

FormatEventsOutput ==
    /\ call.fn = "format_events_output"
    /\ Returns(format_events_output(call.arg))

GenerateWebData ==
    /\ call.fn = "generate_web_data"
    /\ Returns(error_messages(call.arg))

AnalyzeFoodTruckImage ==
    /\ call.fn = "analyze_food_truck_image"
    /\ Returns(analyze_food_truck_image(call.arg, 0))

ParseJsonData ==
    /\ call.fn = "_parse_json_data"
    /\ Returns(parse_json_data(call.arg.parser, call.arg.data,
                               Len(call.arg.data)))

RunWorkflow ==
    /\ call.fn = "FoodTruckWorkflow.run"
    /\ Returns(FoodTruckWorkflow_run(call.arg))

Main ==
    /\ call.fn = "main"
    /\ Returns(main(call.arg))

NextHelpers ==
    \/ ValidateEvent
    \/ FilterValidEvents
    \/ FetchPage
    \/ ParseTime
    \/ FormatEventsOutput
    \/ GenerateWebData
    \/ AnalyzeFoodTruckImage
    \/ ParseJsonData
    \/ RunWorkflow
    \/ Main

SpecHelpers == InitHelpers /\ [][NextHelpers]_vars

\* ------------------------------------------------ the registry on its own
\* Keys a caller can use: two of the keys _parsers starts with, one of them
\* in another case, and a new one.
RegistryKeys == {"stoup-ballard", "Stoup-Ballard", "obec-brewing", "dummy"}

\* Parser classes a caller can register.
RegistryClasses == {"StoupBallardParser", "DummyParser"}

\* ParserRegistry._parsers as the class body leaves it (two of its entries)
InitialParsers ==
    [k \in {"stoup-ballard", "obec-brewing"} |->
        IF k = "stoup-ballard" THEN "HtmlSelectorsParser" ELSE "RegexTextParser"]

InitialOrder == <<"stoup-ballard", "obec-brewing">>

\* Mutant of register_parser: a key already present keeps its class.
register_parser_setdefault(registry, key, parser_class) ==
    IF key \in DOMAIN registry THEN registry
    ELSE [k \in DOMAIN registry \cup {key} |->
            IF k = key THEN parser_class ELSE registry[k]]

\* ParserRegistry.register_parser: cls._parsers[key] = parser_class
register_parser(registry, key, parser_class) ==
    [k \in DOMAIN registry \cup {key} |->
        IF k = key THEN parser_class ELSE registry[k]]

\* the order of a dict's keys after d[key] = value: a new key goes last, a
\* key already present keeps its place
KeyOrder(keys, key) ==
    IF \E i \in 1..Len(keys) : keys[i] = key THEN keys ELSE Append(keys, key)

\* ParserRegistry.get_supported_keys: list(cls._parsers.keys())
get_supported_keys(registry, keys) ==
    SelectSeq(keys, LAMBDA k : k \in DOMAIN registry)

InitRegistry ==
    /\ parsers = InitialParsers
    /\ order = InitialOrder
    /\ registered = <<>>
    /\ max_retries = 3
    /\ breweries = <<>>
    /\ pc = "idle"
    /\ errors = <<>>
    /\ tasks = <<>>
    /\ appends = <<>>
    /\ all_events = <<>>
    /\ returned = <<>>
    /\ now = [hour |-> 12, dst |-> FALSE]
    /\ script = Unscripted
    /\ prev = NoRun
    /\ call = NoCall
    /\ out = NotCalled

RegisterParser ==
    /\ Len(registered) < MaxRegistrations
    /\ \E key \in RegistryKeys, parser_class \in RegistryClasses :
          /\ parsers' = register_parser(parsers, key, parser_class)
          /\ order' = KeyOrder(order, key)
          /\ registered' = Append(registered, <<key, parser_class>>)
          /\ call' = [fn |-> "register_parser", arg |-> <<key, parser_class>>]
          /\ out' = [done |-> TRUE, value |-> <<>>]
    /\ UNCHANGED <<max_retries, breweries, pc, errors, tasks, appends,
                   all_events, returned, now, script, prev>>

GetParser ==
    /\ \E key \in RegistryKeys :
          /\ call' = [fn |-> "get_parser", arg |-> key]
          /\ out' = [done |-> TRUE, value |-> get_parser(parsers, key)]
    /\ UNCHANGED <<parsers, max_retries, breweries, pc, errors, tasks, appends,
                   all_events, returned, now, script, prev, order, registered>>

GetSupportedKeys ==
    /\ call' = [fn |-> "get_supported_keys", arg |-> <<>>]
    /\ out' = [done |-> TRUE, value |-> get_supported_keys(parsers, order)]
    /\ UNCHANGED <<parsers, max_retries, breweries, pc, errors, tasks, appends,
                   all_events, returned, now, script, prev, order, registered>>

NextRegistry ==
    \/ RegisterParser
    \/ GetParser
    \/ GetSupportedKeys

SpecRegistry == InitRegistry /\ [][NextRegistry]_vars

\* ------------------------------------------------------ vocabulary of claims
\* scrape_all has ended, by returning or by raising
Finished == pc \in {"returned", "raised"}

\* entries of the error list that belong to the brewery at position i
ErrorsOf(i) == SelectSeq(errors, LAMBDA e : e.brewery = breweries[i])

\* events of the brewery at position i in a list
EventsOf(i, list) == SelectSeq(list, LAMBDA e : e.brewery_key = breweries[i])

\* the parser of source i was resolved and constructed
Resolved(i) == tasks[i].resolved = "ok"

\* the last completed parse attempt of source i raised
LastAttemptFailed(i) == tasks[i].raised # None

\* the last parse attempt of source i returned
Succeeded(i) == tasks[i].parse_calls >= 1 /\ tasks[i].parse_ok

\* source i ended in failure: resolution, construction or its last attempt
Failed(i) ==
    Done(i) /\ (tasks[i].resolved \notin {None, "ok"} \/ LastAttemptFailed(i))

\* ------------------------------------------------------------------ claims

\* C1: after a run, under every interleaving, each source is in the error
\* list exactly once and contributed no events, or is in it zero times; no
\* source has both an error and events, and every append of an error is in
\* the list exactly once (none lost, none duplicated).
C1_ErrorXorEvents ==
    /\ \A i \in Sources : Len(ErrorsOf(i)) = appends[i]
    /\ \A k \in 1..Len(errors) : \E i \in Sources : errors[k].brewery = breweries[i]
    /\ Finished =>
          \A i \in Sources :
              \/ Len(ErrorsOf(i)) = 1 /\ EventsOf(i, all_events) = <<>>
              \/ Len(ErrorsOf(i)) = 0

C1_Witness ==
    /\ Finished
    /\ \E i, j \in Sources :
          /\ Len(ErrorsOf(i)) = 1
          /\ Len(ErrorsOf(j)) = 0
          /\ EventsOf(j, all_events) # <<>>

\* C2: failure isolation.  Whatever fails in one source, every source of the
\* finished run has completed its own task, contributes its events if it
\* succeeded and exactly one error if it failed, and the final step is
\* aborted by nothing but the events themselves.
C2_FailureIsolation ==
    /\ Finished =>
          \A b \in Sources :
              /\ Done(b)
              /\ Failed(b) =>
                    Len(ErrorsOf(b)) = 1 /\ EventsOf(b, all_events) = <<>>
              /\ ~Failed(b) =>
                    /\ Len(ErrorsOf(b)) = 0
                    /\ EventsOf(b, all_events) = tasks[b].parsed
              /\ pc = "returned" =>
                    EventsOf(b, returned) = SelectSeq(tasks[b].parsed, InWindow)
    /\ pc = "raised" =>
          \E a, b \in 1..Len(all_events) :
              /\ InWindow(all_events[a]) /\ InWindow(all_events[b])
              /\ Incomparable(all_events[a], all_events[b])

C2_Witness ==
    /\ pc = "returned"
    /\ \E a, b \in Sources :
          /\ a < b
          /\ tasks[a].result = "exception"
          /\ Succeeded(b)
          /\ EventsOf(b, returned) # <<>>

\* C3: once parse() has raised ValueError the source is finished: no later
\* attempt, no backoff wait after it, exactly one error, of kind
\* Parser Error, and no events.
C3_ParserErrorNotRetried ==
    \A i \in Sources :
        (tasks[i].parse_calls >= 1 /\ tasks[i].raised = "ValueError") =>
            /\ Done(i)
            /\ tasks[i].result = "list" /\ tasks[i].events = <<>>
            /\ Len(tasks[i].sleeps) = tasks[i].parse_calls - 1
            /\ ErrorsOf(i) = <<ScrapingError(breweries[i], "Parser Error")>>
            /\ Finished => EventsOf(i, all_events) = <<>>

C3_Witness ==
    /\ Finished
    /\ \E i \in Sources :
          /\ tasks[i].raised = "ValueError"
          /\ tasks[i].parse_calls = 1
          /\ tasks[i].parser = "DirectParser"

\* C4: a source whose key the registry does not hold gets, as soon as its
\* task has run, exactly one error of kind Configuration Error, after one
\* lookup, no parse attempt and no wait, and returns no events.
C4_UnregisteredIsConfigurationError ==
    \A i \in Sources :
        (tasks[i].pc # "created" /\ breweries[i] \notin DOMAIN parsers) =>
            /\ Done(i)
            /\ tasks[i].get_parser_calls = 1
            /\ tasks[i].parse_calls = 0
            /\ tasks[i].sleeps = <<>>
            /\ tasks[i].result = "list" /\ tasks[i].events = <<>>
            /\ ErrorsOf(i) =
                  <<ScrapingError(breweries[i], "Configuration Error")>>

\* C5: no source makes more than max_retries parse attempts, and a source
\* whose attempts all failed retryably has made exactly max_retries of them
\* and has exactly one error.
C5_RetryableFailuresExhaustRetries ==
    \A i \in Sources :
        /\ tasks[i].parse_calls <= max_retries
        /\ (Done(i) /\ Resolved(i) /\ tasks[i].parse_calls >= 1
                /\ tasks[i].only_retryable) =>
              /\ tasks[i].parse_calls = max_retries
              /\ Len(ErrorsOf(i)) = 1

C5_Witness ==
    \E i \in Sources :
        /\ Done(i) /\ Resolved(i)
        /\ tasks[i].only_retryable
        /\ max_retries >= 3
        /\ tasks[i].parse_calls = max_retries
        /\ Len(ErrorsOf(i)) = 1

C7_ExhaustedKindIsLast ==
    \A i \in Sources :
        (Done(i) /\ Resolved(i) /\ LastAttemptFailed(i)
            /\ IsRetryableFailure(tasks[i].raised)
            /\ tasks[i].parse_calls = max_retries) =>
            /\ ErrorsOf(i) =
                  <<ScrapingError(breweries[i], KindOf(tasks[i].raised))>>
            /\ tasks[i].result = "list" /\ tasks[i].events = <<>>

C7_Witness ==
    \E i \in Sources :
        /\ Done(i) /\ max_retries = 3 /\ tasks[i].parse_calls = 3
        /\ tasks[i].raised = "ClientError"
        /\ ErrorsOf(i) = <<ScrapingError(breweries[i], "Network Error")>>

\* C8: a source whose attempt j+1 returned after j retryable failures is
\* finished, returns exactly the events of that attempt, has no error, and
\* has waited exactly j times.
C8_SuccessAfterRetries ==
    \A i \in Sources :
        Succeeded(i) =>
            /\ Done(i)
            /\ tasks[i].result = "list" /\ tasks[i].events = tasks[i].parsed
            /\ ErrorsOf(i) = <<>>
            /\ Len(tasks[i].sleeps) = tasks[i].parse_calls - 1
            /\ Finished => EventsOf(i, all_events) = tasks[i].parsed

C8_Witness ==
    /\ Finished
    /\ \E i \in Sources :
          /\ Succeeded(i)
          /\ tasks[i].parse_calls = 3
          /\ tasks[i].parsed # <<>>
          /\ EventsOf(i, all_events) = tasks[i].parsed

\* C9: scrape_all never raises, whatever the parsers raise or return.
C9_ScrapeAllNeverRaises == pc # "raised"

\* C10: an attempt that timed out, in parse() itself or inside fetch_page,
\* is followed by the backoff wait, or was the last permitted attempt and
\* left one error of kind Network Timeout.
C10_TimeoutIsRetried ==
    \A i \in Sources :
        IsTimeout(tasks[i].cause) =>
            \/ tasks[i].pc = "sleeping" /\ tasks[i].parse_calls < max_retries
            \/ /\ tasks[i].parse_calls = max_retries
               /\ ErrorsOf(i) =
                     <<ScrapingError(breweries[i], "Network Timeout")>>

\* C11: an attempt that met a connection error, in parse() itself or inside
\* fetch_page, is followed by the backoff wait, or was the last permitted
\* attempt and left one error of kind Network Error.
C11_NetworkErrorIsRetried ==
    \A i \in Sources :
        tasks[i].cause = "ClientError" =>
            \/ tasks[i].pc = "sleeping" /\ tasks[i].parse_calls < max_retries
            \/ /\ tasks[i].parse_calls = max_retries
               /\ ErrorsOf(i) =
                     <<ScrapingError(breweries[i], "Network Error")>>

\* C12: no source makes more than max_retries attempts, and an attempt that
\* raised an exception that is no timeout, no ClientError and no ValueError
\* is followed by the backoff wait 2^attempt, or was the last permitted
\* attempt and left one error of kind Unexpected Error and no events.
C12_UnexpectedIsRetried ==
    \A i \in Sources :
        LET t == tasks[i]
        IN  /\ t.parse_calls <= max_retries
            /\ t.raised \in ExceptionClasses \
                    {"TimeoutError", "ServerTimeoutError", "ClientError",
                     "ValueError"} =>
                  \/ /\ t.pc = "sleeping"
                     /\ t.parse_calls < max_retries
                     /\ Len(t.sleeps) = t.parse_calls
                     /\ t.sleeps[Len(t.sleeps)] = 2 ^ t.attempt
                  \/ /\ t.pc = "done"
                     /\ t.parse_calls = max_retries
                     /\ t.result = "list" /\ t.events = <<>>
                     /\ ErrorsOf(i) =
                           <<ScrapingError(breweries[i], "Unexpected Error")>>

C12_Witness ==
    \E i \in Sources :
        /\ Done(i) /\ tasks[i].raised = "RuntimeError"
        /\ max_retries = 3 /\ tasks[i].parse_calls = 3
        /\ tasks[i].sleeps = <<1, 2>>
        /\ ErrorsOf(i) = <<ScrapingError(breweries[i], "Unexpected Error")>>

\* C13: no parse attempt is awaited for longer than timeout.
C13_AttemptBoundedByTimeout ==
    \A i \in Sources :
        tasks[i].pc = "parsing" => tasks[i].elapsed <= timeout

\* C14: every returned event is dated within [today, today + 7], both ends
\* included, and every merged event dated within it is returned: an event
\* dated today + 7 is kept, one dated today + 8 or today - 1 is dropped.
C14_WindowInclusive ==
    pc = "returned" =>
        /\ \A k \in 1..Len(returned) :
              today <= returned[k].date /\ returned[k].date <= today + 7
        /\ \A k \in 1..Len(all_events) :
              (today <= all_events[k].date /\ all_events[k].date <= today + 7)
                  => \E j \in 1..Len(returned) : returned[j] = all_events[k]

C14_Witness ==
    /\ pc = "returned"
    /\ \E j \in 1..Len(returned) : returned[j].date = today + 7
    /\ \E k \in 1..Len(all_events) : all_events[k].date = today + 8
    /\ \E k \in 1..Len(all_events) : all_events[k].date = today - 1

\* C15: whenever the filter has run, the today it used is the calendar date
\* of now_in_pacific(), daylight-saving time included.
C15_TodayIsReferenceDate ==
    pc \in {"returned", "raised"} => today = now_in_pacific_date

\* the start of an event within its calendar date: start_time, or midnight
StartOrMidnight(e) == IF e.start_time = NoTime THEN 0 ELSE e.start_time

\* C16: the returned list is non-decreasing by (calendar date, start_time or
\* midnight of that date).
C16_SortedByDateThenStart ==
    pc = "returned" =>
        \A a, b \in 1..Len(returned) :
            a < b =>
                \/ returned[a].date < returned[b].date
                \/ /\ returned[a].date = returned[b].date
                   /\ StartOrMidnight(returned[a]) <= StartOrMidnight(returned[b])

\* C17: of two returned events on the same calendar date, one without and
\* one with a start_time, the one without comes first.
C17_NoTimeBeforeTimed ==
    pc = "returned" =>
        \A a, b \in 1..Len(returned) :
            (/\ returned[a].date = returned[b].date
             /\ returned[a].start_time = NoTime
             /\ returned[b].start_time # NoTime) => a < b

\* how often event e occurs in a list
Count(e, list) == Cardinality({ k \in 1..Len(list) : list[k] = e })

\* how often event e occurs in what the successful attempts returned
CountParsed(e) ==
    Cardinality(UNION { { <<i, k>> : k \in { k \in 1..Len(tasks[i].parsed) :
                                               tasks[i].parsed[k] = e } } :
                        i \in { i \in Sources : Succeeded(i) } })

\* every event a successful attempt returned, and every event returned
SeenEvents ==
    { returned[k] : k \in 1..Len(returned) } \cup
    UNION { { tasks[i].parsed[k] : k \in 1..Len(tasks[i].parsed) } :
            i \in Sources }

\* C18: nothing is merged or returned before every task has completed, and
\* the returned list holds each event exactly as often as the successful
\* attempts returned it if its date is within [today, today + 7], and not
\* at all otherwise.
C18_MergeIsExact ==
    /\ Finished => \A i \in Sources : Done(i)
    /\ ~Finished => all_events = <<>> /\ returned = <<>>
    /\ pc = "returned" =>
          \A e \in SeenEvents :
              Count(e, returned) =
                  IF today <= e.date /\ e.date <= today + 7
                  THEN CountParsed(e) ELSE 0

C18_Witness ==
    /\ pc = "returned"
    /\ \E i, j \in Sources :
          /\ Succeeded(i) /\ Len(tasks[i].parsed) = 2
          /\ Count(tasks[i].parsed[1], returned) = 2
          /\ Succeeded(j) /\ tasks[j].parsed # <<>>
          /\ EventsOf(j, returned) = <<>>

\* C19: every entry of the error list was appended by the current run: the
\* list is empty when the run's tasks have not started, each of its entries
\* belongs to a brewery of this run, and each brewery has as many entries as
\* this run appended for it.
C19_ErrorsOfThisRunOnly ==
    /\ (pc = "gather" /\ \A i \in Sources : tasks[i].pc = "created") =>
          errors = <<>>
    /\ \A k \in 1..Len(errors) :
          \E i \in Sources : errors[k].brewery = breweries[i]
    /\ \A i \in Sources : Len(ErrorsOf(i)) = appends[i]

C19_Witness ==
    /\ prev.pc = "returned" /\ prev.errors # <<>>
    /\ pc = "returned" /\ breweries # <<>> /\ errors = <<>>

\* C20: a run on the same breweries as the previous run, the sites behaving
\* the same way, ends the same way, with the same event list and the same
\* error list in the same order.
C20_Idempotent ==
    (Finished /\ prev.pc \in {"returned", "raised"}
        /\ breweries = prev.breweries) =>
        /\ pc = prev.pc
        /\ returned = prev.returned
        /\ errors = prev.errors

\* C21: a source starts a parse attempt only as its first, from the task's
\* start, or after the backoff wait that followed the failure of the attempt
\* before; attempts are counted one by one and the attempt in flight is the
\* only one.
C21_AttemptsSequential ==
    [][\A i \in Sources :
          (Len(tasks') >= i /\ tasks'[i].parse_calls # tasks[i].parse_calls) =>
              /\ tasks'[i].parse_calls = tasks[i].parse_calls + 1
              /\ tasks'[i].pc = "parsing"
              /\ tasks'[i].attempt = tasks[i].parse_calls
              /\ \/ tasks[i].pc = "created"
                 \/ tasks[i].pc = "sleeping" /\ tasks[i].raised # None]_vars

C21_Witness ==
    \E i \in Sources :
        /\ tasks[i].pc = "parsing" /\ tasks[i].attempt = 2
        /\ tasks[i].parse_calls = 3 /\ tasks[i].sleeps = <<1, 2>>

\* sources inside their attempt loop
InFlight == { i \in Sources : tasks[i].pc \in {"parsing", "sleeping"} }

\* C22: at most max_concurrent sources are inside their attempt loop at any
\* moment.
C22_BoundedConcurrency == Cardinality(InFlight) <= max_concurrent

\* C23: a run on an empty brewery list creates no task, records no error,
\* and ends by returning the empty list.
C23_EmptyListReturnsEmpty ==
    (pc # "idle" /\ breweries = <<>>) =>
        /\ tasks = <<>>
        /\ errors = <<>>
        /\ pc # "raised"
        /\ returned = <<>> /\ all_events = <<>>

C23_Witness == pc = "returned" /\ breweries = <<>>

\* C24: a source whose attempt returned the empty list is finished, with the
\* empty list as its result, no error and no event of its own, on whichever
\* attempt that was.
C24_EmptySuccessIsNoError ==
    \A i \in Sources :
        (Succeeded(i) /\ tasks[i].parsed = <<>>) =>
            /\ Done(i)
            /\ tasks[i].result = "list" /\ tasks[i].events = <<>>
            /\ appends[i] = 0 /\ ErrorsOf(i) = <<>>
            /\ EventsOf(i, all_events) = <<>> /\ EventsOf(i, returned) = <<>>

C24_Witness ==
    /\ pc = "returned"
    /\ \E i \in Sources :
          /\ Succeeded(i) /\ tasks[i].parsed = <<>>
          /\ tasks[i].parse_calls = 2
          /\ ErrorsOf(i) = <<>>

\* a helper has been called on its own and has returned
Called(fn) == call.fn = fn /\ out.done

\* C25: the times _parse_time gives an event are in order, the end after
\* the start.
C25_EndAfterStart ==
    (Called("_parse_time") /\ out.value # <<>>) => out.value[2] > out.value[1]

\* what the claim asks of an event: keys and name non-empty, a name that is
\* more than spaces, a date
IsValid(event) ==
    /\ event.brewery_key # <<>>
    /\ event.brewery_name # <<>>
    /\ \E k \in 1..Len(event.food_truck_name) : event.food_truck_name[k] # " "
    /\ event.date # <<>>

\* C26: validate_event returns a boolean, true exactly for an event with a
\* source key, a source name, a name that is not blank once trimmed, and a
\* date.
C26_ValidateEventIff ==
    Called("validate_event") =>
        /\ out.value \in BOOLEAN
        /\ out.value <=> IsValid(call.arg)

C26_Witness ==
    /\ Called("validate_event")
    /\ call.arg.brewery_key # <<>> /\ call.arg.brewery_name # <<>>
    /\ call.arg.date # <<>>
    /\ call.arg.food_truck_name = <<" ">>
    /\ out.value = FALSE

\* C27: filter_valid_events returns the valid events of its input, each
\* once, in the order of the input, and nothing else.
C27_FilterKeepsValidInOrder ==
    Called("filter_valid_events") => out.value = SelectSeq(call.arg, IsValid)

C27_Witness ==
    /\ Called("filter_valid_events")
    /\ Len(call.arg) = 3
    /\ IsValid(call.arg[1]) /\ ~IsValid(call.arg[2]) /\ IsValid(call.arg[3])
    /\ call.arg[1] # call.arg[3]
    /\ out.value = <<call.arg[1], call.arg[3]>>

\* the classification a fetch_page result carries in its message
Classification(result) ==
    CASE result.exc = None -> "document"
      [] result.msg = "Page not found (404)" -> "not found"
      [] result.msg = "Access forbidden (403)" -> "forbidden"
      [] result.msg = "Server error (500)" -> "server error"
      [] result.msg = "HTTP status" -> "http failure"
      [] result.msg = "Empty response" -> "empty response"
      [] OTHER -> "other"

\* C29: fetch_page classifies a response by its status: 404 not found,
\* 403 forbidden, every 5xx server error, another non-200 status a generic
\* HTTP failure, an empty body an empty response, and a document for a 200
\* with a body; every failure is a ValueError.
C29_ResponseClassified ==
    (Called("fetch_page") /\ call.arg \notin ExceptionClasses) =>
        /\ Classification(out.value) =
              CASE call.arg = "404" -> "not found"
                [] call.arg = "403" -> "forbidden"
                [] call.arg \in {"500", "503"} -> "server error"
                [] call.arg = "301" -> "http failure"
                [] call.arg = "200-empty" -> "empty response"
                [] call.arg = "200" -> "document"
        /\ out.value.exc \in {None, "ValueError"}

\* C30: a function that shows a list of errors shows one entry per distinct
\* user message.
C30_OneEntryPerUserMessage ==
    (Called("format_events_output") \/ Called("generate_web_data")) =>
        Len(out.value) =
            Cardinality({ to_user_message(call.arg[k]) : k \in 1..Len(call.arg) })

RECURSIVE LastRegistered(_, _)
\* the class the registrations of `log` leave under key k, made on a fresh
\* registry: <<>> when there is none
LastRegistered(log, k) ==
    IF log = <<>>
    THEN IF k \in DOMAIN InitialParsers THEN <<InitialParsers[k]>> ELSE <<>>
    ELSE IF log[Len(log)][1] = k THEN <<log[Len(log)][2]>>
    ELSE LastRegistered(SubSeq(log, 1, Len(log) - 1), k)

\* C28: after any register_parser calls, get_parser(k) returns the class
\* registered last under exactly k and raises the ValueError of an unknown
\* key when there is none, and get_supported_keys lists, each once, the keys
\* for which get_parser succeeds.
C28_RegistryIsMap ==
    /\ Called("get_parser") =>
          out.value =
              IF LastRegistered(registered, call.arg) = <<>>
              THEN Raise("ValueError", "No parser found for key")
              ELSE Ok(LastRegistered(registered, call.arg)[1])
    /\ Called("get_supported_keys") =>
          /\ \A k \in RegistryKeys :
                (\E i \in 1..Len(out.value) : out.value[i] = k) <=>
                    /\ get_parser(parsers, k).exc = None
                    /\ LastRegistered(registered, k) # <<>>
          /\ \A i, j \in 1..Len(out.value) :
                out.value[i] = out.value[j] => i = j
          /\ \A i \in 1..Len(out.value) : out.value[i] \in RegistryKeys

C28_Witness ==
    /\ Called("get_parser")
    /\ call.arg = "stoup-ballard"
    /\ registered = <<<<"stoup-ballard", "DummyParser">>,
                      <<"stoup-ballard", "StoupBallardParser">>>>
    /\ out.value = Ok("StoupBallardParser")

\* position in the brewery list of the brewery an error belongs to
PositionOf(error) ==
    CHOOSE i \in Sources : breweries[i] = error.brewery

\* C36: the error list is in the order of the brewery list: an error of an
\* earlier brewery comes before an error of a later one.
C36_ErrorsInSourceOrder ==
    Finished =>
        \A a, b \in 1..Len(errors) :
            a < b => PositionOf(errors[a]) < PositionOf(errors[b])

\* C38: a source whose parser was resolved ends the run with an error or
\* with a parse attempt that returned.
C38_ErrorOrAttempt ==
    \A i \in Sources :
        (Finished /\ Resolved(i)) => (ErrorsOf(i) # <<>> \/ Succeeded(i))

AttemptsComplete ==
    \A i \in 1..Len(breweries) :
        breweries[i] \in DOMAIN parsers =>
            parsers[breweries[i]] # "HangingParser"

EventsOfItem(k) == SelectSeq(out.value.events, LAMBDA e : e.item = k)

\* the analyzer gave no name for item k: it raised, ran out of time or
\* returned None
VisionFailed(item) ==
    /\ item.eventTitle = None /\ item.eventImage # None
    /\ item.vision \in {"none", "raises", "timeout"}

RetryableApiOutcomes == {"APITimeoutError", "Exception"}

\* C37: analyze_food_truck_image never raises, calls the image analysis at
\* most max_retries + 1 times, not at all for an invalid URL, returns the
\* first result it gets, and returns None after exactly max_retries + 1
\* calls when every call fails with an error it retries after.
C37_VisionRetriesBounded ==
    Called("analyze_food_truck_image") =>
        LET arg == call.arg
            n == arg.max_retries + 1
            answered == { k \in 1..n : arg.api[k] \notin RetryableApiOutcomes }
        IN  /\ out.value.exc = None
            /\ out.value.invocations <= n
            /\ ~arg.valid =>
                  out.value.invocations = 0 /\ out.value.result = None
            /\ (arg.valid /\ answered = {}) =>
                  out.value.invocations = n /\ out.value.result = None
            /\ (arg.valid /\ answered # {}) =>
                  LET first == CHOOSE k \in answered :
                                  \A j \in answered : k <= j
                  IN  /\ out.value.invocations = first
                      /\ out.value.result =
                            IF arg.api[first] = "name" THEN "Vision Name"
                            ELSE None

\* an activity was executed by the workflow call
Started(activity) ==
    \E k \in 1..Len(out.value.started) : out.value.started[k] = activity

\* the scrape activity returned
ScrapeReturned ==
    call.arg.load_brewery_config /\ call.arg.scrape_food_trucks

Activities ==
    <<"load_brewery_config", "scrape_food_trucks", "generate_web_data",
      "deploy_to_git">>

\* C34: the workflow never raises.  When an activity it executes fails, it
\* returns success = false, events_count = 0, deployed = false and one
\* error string, and the failed activity is the last one executed; when
\* none fails, it returns success = true with the number of events and one
\* error string for each scrape error.
C34_WorkflowNeverRaises ==
    Called("FoodTruckWorkflow.run") =>
        LET started == out.value.started
            failed == { k \in 1..Len(started) : ~call.arg[started[k]] }
        IN  /\ out.value.exc = None
            /\ started = SubSeq(Activities, 1, Len(started))
            /\ failed # {} =>
                  /\ failed = {Len(started)}
                  /\ ~out.value.success /\ out.value.events_count = 0
                  /\ ~out.value.deployed /\ out.value.errors = 1
            /\ failed = {} =>
                  /\ out.value.success
                  /\ out.value.events_count = call.arg.events
                  /\ out.value.errors = call.arg.errors

C34_Witness ==
    /\ Called("FoodTruckWorkflow.run")
    /\ call.arg.deploy /\ call.arg.events = 1 /\ call.arg.errors = 2
    /\ ~call.arg.generate_web_data
    /\ out.value.started = <<"load_brewery_config", "scrape_food_trucks",
                             "generate_web_data">>
    /\ ~out.value.success /\ out.value.errors = 1

====
